---- MODULE Spec2Model ----
(***************************************************************************)
(* Model of the /converter endpoint of flask-currency-converter            *)
(* (src/app.py): convert_currency, validation_check, get_conversion_rate.  *)
(*                                                                         *)
(* Strings that the code inspects (query parameter values, currency codes) *)
(* are sequences of one-character strings, so that str.upper() and float() *)
(* are computed character by character.  Decimal numbers are records       *)
(* [num, frac] standing for num / 10^frac.                                 *)
(***************************************************************************)
EXTENDS Integers, Sequences, FiniteSets, TLC

VARIABLES
    pc,        \* per request: position of its handler
    args,      \* per request: request.args, the query parameters supplied
    outbound,  \* per request: params of the requests.get call it has made
    calls,     \* per request: number of requests.get calls made
    answer,    \* per request: what requests.get produced for its call
    response,  \* per request: the HTTP response returned to the caller
    fpErr      \* sign of the binary rounding error of rate * amount at a decimal tie

vars == <<pc, args, outbound, calls, answer, response, fpErr>>

\* number of requests the hosting framework handles at the same time
NumRequests == 2

Requests == 1..NumRequests

-----------------------------------------------------------------------------
(* Strings                                                                 *)

USD == <<"U", "S", "D">>
GBP == <<"G", "B", "P">>
EUR == <<"E", "U", "R">>

UpperTable ==
    [c \in {"u", "s", "d", "g", "b", "p", "e", "r", "x", "n", "o", "t", "a", "m"} |->
        CASE c = "u" -> "U" [] c = "s" -> "S" [] c = "d" -> "D" [] c = "g" -> "G"
          [] c = "b" -> "B" [] c = "p" -> "P" [] c = "e" -> "E" [] c = "r" -> "R"
          [] c = "x" -> "X" [] c = "n" -> "N" [] c = "o" -> "O" [] c = "t" -> "T"
          [] c = "a" -> "A" [] c = "m" -> "M"]

\* str.upper(): lower-case letters are mapped, every other character is kept
upper(s) ==
    [i \in 1..Len(s) |-> IF s[i] \in DOMAIN UpperTable THEN UpperTable[s[i]] ELSE s[i]]

DigitVal ==
    [c \in {"0", "1", "2", "3", "4", "5", "6", "7", "8", "9"} |->
        CASE c = "0" -> 0 [] c = "1" -> 1 [] c = "2" -> 2 [] c = "3" -> 3
          [] c = "4" -> 4 [] c = "5" -> 5 [] c = "6" -> 6 [] c = "7" -> 7
          [] c = "8" -> 8 [] c = "9" -> 9]

RECURSIVE Pow10(_)
Pow10(n) == IF n = 0 THEN 1 ELSE 10 * Pow10(n - 1)

RECURSIVE DigitsToNat(_)
DigitsToNat(ds) ==
    IF ds = <<>> THEN 0
    ELSE 10 * DigitsToNat(SubSeq(ds, 1, Len(ds) - 1)) + DigitVal[ds[Len(ds)]]

RECURSIVE StripLeft(_)
StripLeft(s) == IF s # <<>> /\ s[1] = " " THEN StripLeft(Tail(s)) ELSE s

RECURSIVE StripRight(_)
StripRight(s) ==
    IF s # <<>> /\ s[Len(s)] = " " THEN StripRight(SubSeq(s, 1, Len(s) - 1)) ELSE s

ValueError == [ok |-> FALSE, num |-> 0, frac |-> 0]

\* float(s) on a str of spaces, sign, digits and '.': surrounding whitespace is
\* stripped, one optional sign, digits with at most one '.', at least one digit;
\* anything else raises ValueError.
float(s) ==
    LET t      == StripRight(StripLeft(s))
        signed == t # <<>> /\ t[1] \in {"+", "-"}
        body   == IF signed THEN Tail(t) ELSE t
        dots   == {i \in 1..Len(body) : body[i] = "."}
        dot    == IF dots = {} THEN Len(body) + 1 ELSE CHOOSE i \in dots : TRUE
        ip     == SubSeq(body, 1, dot - 1)
        fp     == SubSeq(body, dot + 1, Len(body))
        digits == ip \o fp
        wellformed ==
            /\ Cardinality(dots) <= 1
            /\ digits # <<>>
            /\ \A i \in 1..Len(digits) : digits[i] \in DOMAIN DigitVal
    IN  IF wellformed
        THEN [ok   |-> TRUE,
              num  |-> (IF signed /\ t[1] = "-" THEN -1 ELSE 1) * DigitsToNat(digits),
              frac |-> Len(fp)]
        ELSE ValueError

-----------------------------------------------------------------------------
(* Decimal arithmetic of the success path                                  *)

\* conversion_rate * float(base_amount)
Times(x, y) == [num |-> x.num * y.num, frac |-> x.frac + y.frac]

\* variant: the product is cut to two decimals instead of rounded
round2_Truncate(x, err) ==
    IF x.frac <= 2 THEN x.num * Pow10(2 - x.frac)
    ELSE LET mag == IF x.num < 0 THEN -x.num ELSE x.num
             q   == mag \div Pow10(x.frac - 2)
         IN  IF x.num < 0 THEN -q ELSE q

\* round(x, 2), in hundredths.  Python rounds the binary double to the nearest
\* hundredth; at a decimal tie the double lies below (err < 0), above (err > 0)
\* or exactly on the tie (err = 0, rounded half to even).
round2(x, err) ==
    IF x.frac <= 2 THEN x.num * Pow10(2 - x.frac)
    ELSE LET d   == Pow10(x.frac - 2)
             mag == IF x.num < 0 THEN -x.num ELSE x.num
             q   == mag \div d
             rem == mag % d
             up  == \/ 2 * rem > d
                    \/ 2 * rem = d /\ (err > 0 \/ (err = 0 /\ q % 2 = 1))
             res == IF up THEN q + 1 ELSE q
         IN  IF x.num < 0 THEN -res ELSE res

-----------------------------------------------------------------------------
(* The handler                                                             *)

\* MultiDict.get(key, default)
ArgsGet(a, key, default) == IF key \in DOMAIN a THEN a[key] ELSE default

\* the int 1 that args.get('amount', 1) yields; float(1) and float("1") agree
DefaultAmount == <<"1">>

NoResponse == [status |-> 0, body |-> <<>>]

VALID_COUNTRIES == {USD, GBP, EUR}

CurrencyError == "Invalid or missing query parameters"
CurrencyNotes == "Query parameters, base-currency and to-currency, are required."
AmountError == "Invalid amount passed in"
AmountNotes == "Make sure amount is a valid number."

\* the generic 500 of the framework for an exception the handler does not catch
ServerError == [status |-> 500, body |-> <<>>]

\* variant: the amount is checked before the currency codes
validation_check_AmountFirst(base_currency, to_currency, base_amount, user_input) ==
    IF ~float(base_amount).ok
    THEN [status |-> 400,
          body   |-> [error |-> AmountError, notes |-> AmountNotes,
                      user_input |-> user_input]]
    ELSE IF upper(base_currency) \notin VALID_COUNTRIES \/ upper(to_currency) \notin VALID_COUNTRIES
    THEN [status |-> 400,
          body   |-> [error |-> CurrencyError, notes |-> CurrencyNotes,
                      user_input |-> user_input]]
    ELSE NoResponse

\* variant: an empty amount is taken for an absent one and not parsed
validation_check_SkipEmpty(base_currency, to_currency, base_amount, user_input) ==
    IF upper(base_currency) \notin VALID_COUNTRIES \/ upper(to_currency) \notin VALID_COUNTRIES
    THEN [status |-> 400,
          body   |-> [error |-> CurrencyError, notes |-> CurrencyNotes,
                      user_input |-> user_input]]
    ELSE IF base_amount # <<>> /\ ~float(base_amount).ok
    THEN [status |-> 400,
          body   |-> [error |-> AmountError, notes |-> AmountNotes,
                      user_input |-> user_input]]
    ELSE NoResponse

validation_check(base_currency, to_currency, base_amount, user_input) ==
    IF upper(base_currency) \notin VALID_COUNTRIES \/ upper(to_currency) \notin VALID_COUNTRIES
    THEN [status |-> 400,
          body   |-> [error |-> CurrencyError, notes |-> CurrencyNotes,
                      user_input |-> user_input]]
    ELSE IF ~float(base_amount).ok
    THEN [status |-> 400,
          body   |-> [error |-> AmountError, notes |-> AmountNotes,
                      user_input |-> user_input]]
    ELSE NoResponse

\* variant: the codes are sent as the caller wrote them
LookupParams_Raw(base_currency, to_currency) ==
    [apikey        |-> "CURRENCYAPI_APIKEY",
     base_currency |-> base_currency,
     currencies    |-> <<to_currency>>]

\* params of the outbound call (the api key is an opaque secret)
LookupParams(base_currency, to_currency) ==
    [apikey        |-> "CURRENCYAPI_APIKEY",
     base_currency |-> upper(base_currency),
     currencies    |-> <<upper(to_currency)>>]

NoAnswer == [kind |-> "none", status_code |-> 0, json |-> FALSE, hasData |-> FALSE, data |-> <<>>]

\* requests.get raised (connection error, timeout of the transport, ...)
NetworkFailure ==
    [kind |-> "raised", status_code |-> 0, json |-> FALSE, hasData |-> FALSE, data |-> <<>>]

\* variant: a missing currency key yields a default rate instead of raising
get_conversion_rate_Default(to_currency, ans) ==
    IF ans.kind = "response" /\ ans.json /\ ans.hasData
    THEN [raised |-> FALSE,
          value  |-> IF upper(to_currency) \in DOMAIN ans.data
                     THEN ans.data[upper(to_currency)]
                     ELSE [num |-> 1, frac |-> 0]]
    ELSE [raised |-> TRUE, value |-> [num |-> 0, frac |-> 0]]

\* r.json()['data'][to_currency.upper()]['value'] of get_conversion_rate: the
\* status code of r is not looked at; a raise of requests.get, a body that is not
\* JSON, a missing 'data' and a missing currency key all raise.
get_conversion_rate(to_currency, ans) ==
    IF /\ ans.kind = "response"
       /\ ans.json
       /\ ans.hasData
       /\ upper(to_currency) \in DOMAIN ans.data
    THEN [raised |-> FALSE, value |-> ans.data[upper(to_currency)]]
    ELSE [raised |-> TRUE, value |-> [num |-> 0, frac |-> 0]]

\* variant: the condition tests base_amount, which carries the default 1
AmountPassed_Default(a) == ArgsGet(a, "amount", DefaultAmount) # <<>>

\* args.get('amount') as a condition: None and '' are false, every other str true
AmountPassed(a) == "amount" \in DOMAIN a /\ a["amount"] # <<>>

\* variant: user_input is echoed with the defaulted amount filled in
BuildResponse_EchoDefault(a, ans, err) ==
    LET to_currency     == ArgsGet(a, "to-currency", <<>>)
        base_amount     == ArgsGet(a, "amount", DefaultAmount)
        looked          == get_conversion_rate(to_currency, ans)
        conversion_rate == looked.value
        echoed          == a @@ ("amount" :> DefaultAmount)
    IN  IF looked.raised THEN ServerError
        ELSE IF AmountPassed(a)
        THEN [status |-> 200,
              body   |-> [conversion_rate  |-> conversion_rate,
                          user_input       |-> echoed,
                          converted_amount |->
                              round2(Times(conversion_rate, float(base_amount)), err)]]
        ELSE [status |-> 200,
              body   |-> [conversion_rate |-> conversion_rate, user_input |-> echoed]]

\* lines 45-57 of convert_currency, given what the outbound call produced
BuildResponse(a, ans, err) ==
    LET to_currency     == ArgsGet(a, "to-currency", <<>>)
        base_amount     == ArgsGet(a, "amount", DefaultAmount)
        looked          == get_conversion_rate(to_currency, ans)
        conversion_rate == looked.value
    IN  IF looked.raised THEN ServerError
        ELSE IF AmountPassed(a)
        THEN [status |-> 200,
              body   |-> [conversion_rate  |-> conversion_rate,
                          user_input       |-> a,
                          converted_amount |->
                              round2(Times(conversion_rate, float(base_amount)), err)]]
        ELSE [status |-> 200,
              body   |-> [conversion_rate |-> conversion_rate, user_input |-> a]]

\* lines 36-43: the validation the handler runs on its own query parameters
Validation(a) ==
    validation_check(ArgsGet(a, "base-currency", <<>>), ArgsGet(a, "to-currency", <<>>),
                     ArgsGet(a, "amount", DefaultAmount), a)

\* the whole handler as a function of one request's parameters and of the answer
\* to its own outbound call
convert_currency(a, ans, err) ==
    IF Validation(a).status # 0 THEN Validation(a) ELSE BuildResponse(a, ans, err)

-----------------------------------------------------------------------------
(* Inputs                                                                  *)

Param(key, values) == {<<>>} \cup {key :> v : v \in values}

CodeValues ==
    {USD, GBP, EUR, <<"g", "b", "p">>, <<"U", "s", "d">>, <<"X", "X", "X">>, <<>>}

AmountValues ==
    {<<>>, <<"0">>, <<"1", "2", "3">>, <<"0", ".", "1">>, <<"7">>, <<"-", "2", ".", "5">>,
     <<" ", "7", " ">>, <<"1", ".", "2", ".", "3">>,
     <<"n", "o", "t", "a", "n", "u", "m", "b", "e", "r">>}

ExtraValues == {<<"a", "b">>}

ArgsDomain ==
    {b @@ t @@ m @@ x :
        b \in Param("base-currency", CodeValues),
        t \in Param("to-currency", CodeValues),
        m \in Param("amount", AmountValues),
        x \in Param("ref", ExtraValues)}

ArgsDomainConc ==
    {b @@ t @@ m :
        b \in {"base-currency" :> v : v \in {GBP, <<"g", "b", "p">>, <<"X", "X">>, <<"x", "x">>}},
        t \in {"to-currency" :> v : v \in {USD, <<"U", "s", "d">>}},
        m \in {"amount" :> v : v \in {<<"0", ".", "1">>}}}

Rates == {[num |-> 841409, frac |-> 6], [num |-> 125, frac |-> 2]}

StatusCodes == {200, 429}

Bodies ==
    {[json |-> FALSE, hasData |-> FALSE, data |-> <<>>],
     [json |-> TRUE, hasData |-> FALSE, data |-> <<>>]}
    \cup {[json |-> TRUE, hasData |-> TRUE, data |-> c :> v] : c \in VALID_COUNTRIES, v \in Rates}

Answers ==
    {NetworkFailure}
    \cup {[kind |-> "response", status_code |-> s, json |-> b.json, hasData |-> b.hasData,
           data |-> b.data] : s \in StatusCodes, b \in Bodies}

AnswersConc ==
    {NetworkFailure}
    \cup {[kind |-> "response", status_code |-> 200, json |-> TRUE, hasData |-> TRUE,
           data |-> USD :> v] : v \in Rates}

-----------------------------------------------------------------------------
(* State machine                                                           *)

TypeOK ==
    /\ pc \in [Requests -> {"idle", "received", "validated", "waiting", "answered", "done"}]
    /\ calls \in [Requests -> Nat]
    /\ fpErr \in {-1, 0, 1}

InitCommon ==
    /\ outbound = [r \in Requests |-> <<>>]
    /\ calls = [r \in Requests |-> 0]
    /\ answer = [r \in Requests |-> NoAnswer]
    /\ response = [r \in Requests |-> NoResponse]
    /\ fpErr \in {-1, 0, 1}

\* one request handled on its own
Init ==
    /\ pc = [r \in Requests |-> IF r = 1 THEN "received" ELSE "idle"]
    /\ \E a \in ArgsDomain : args = [r \in Requests |-> IF r = 1 THEN a ELSE <<>>]
    /\ InitCommon

\* NumRequests requests handled concurrently by the framework's workers
InitConc ==
    /\ pc = [r \in Requests |-> "received"]
    /\ args \in [Requests -> ArgsDomainConc]
    /\ InitCommon

\* variant: the rate is fetched before the parameters are validated
Validate_AfterLookup(r) ==
    /\ pc[r] = "received"
    /\ outbound' = [outbound EXCEPT ![r] =
                        LookupParams(ArgsGet(args[r], "base-currency", <<>>),
                                     ArgsGet(args[r], "to-currency", <<>>))]
    /\ calls' = [calls EXCEPT ![r] = @ + 1]
    /\ LET v == Validation(args[r])
       IN  IF v.status # 0
           THEN /\ response' = [response EXCEPT ![r] = v]
                /\ pc' = [pc EXCEPT ![r] = "done"]
           ELSE /\ pc' = [pc EXCEPT ![r] = "waiting"]
                /\ UNCHANGED response
    /\ UNCHANGED <<args, answer, fpErr>>

\* lines 36-43: read the parameters, run validation_check, return its response
Validate(r) ==
    /\ pc[r] = "received"
    /\ LET v == Validation(args[r])
       IN  IF v.status # 0
           THEN /\ response' = [response EXCEPT ![r] = v]
                /\ pc' = [pc EXCEPT ![r] = "done"]
           ELSE /\ pc' = [pc EXCEPT ![r] = "validated"]
                /\ UNCHANGED response
    /\ UNCHANGED <<args, outbound, calls, answer, fpErr>>

\* lines 45, 101-109: get_conversion_rate issues requests.get and blocks
SendLookup(r) ==
    /\ pc[r] = "validated"
    /\ outbound' = [outbound EXCEPT ![r] =
                        LookupParams(ArgsGet(args[r], "base-currency", <<>>),
                                     ArgsGet(args[r], "to-currency", <<>>))]
    /\ calls' = [calls EXCEPT ![r] = @ + 1]
    /\ pc' = [pc EXCEPT ![r] = "waiting"]
    /\ UNCHANGED <<args, answer, response, fpErr>>

\* line 109: requests.get returns a response or raises
ProviderReply(r, ans) ==
    /\ pc[r] = "waiting"
    /\ answer' = [answer EXCEPT ![r] = ans]
    /\ pc' = [pc EXCEPT ![r] = "answered"]
    /\ UNCHANGED <<args, outbound, calls, response, fpErr>>

\* variant: a failed lookup is tried again
Respond_Retry(r) ==
    /\ pc[r] = "answered"
    /\ LET resp == BuildResponse(args[r], answer[r], fpErr)
       IN  IF resp.status = 500
           THEN /\ pc' = [pc EXCEPT ![r] = "validated"]
                /\ UNCHANGED response
           ELSE /\ response' = [response EXCEPT ![r] = resp]
                /\ pc' = [pc EXCEPT ![r] = "done"]
    /\ UNCHANGED <<args, outbound, calls, answer, fpErr>>

\* variant: the answer is kept in a slot shared by all requests
Respond_SharedAnswer(r) ==
    /\ pc[r] = "answered"
    /\ \E q \in Requests :
          /\ answer[q].kind # "none"
          /\ response' = [response EXCEPT ![r] = BuildResponse(args[r], answer[q], fpErr)]
    /\ pc' = [pc EXCEPT ![r] = "done"]
    /\ UNCHANGED <<args, outbound, calls, answer, fpErr>>

\* lines 126, 47-57: read the rate out of the answer and return the response
Respond(r) ==
    /\ pc[r] = "answered"
    /\ response' = [response EXCEPT ![r] = BuildResponse(args[r], answer[r], fpErr)]
    /\ pc' = [pc EXCEPT ![r] = "done"]
    /\ UNCHANGED <<args, outbound, calls, answer, fpErr>>

Next ==
    \E r \in Requests :
        \/ Validate(r)
        \/ SendLookup(r)
        \/ \E ans \in Answers : ProviderReply(r, ans)
        \/ Respond(r)

NextConc ==
    \E r \in Requests :
        \/ Validate(r)
        \/ SendLookup(r)
        \/ \E ans \in AnswersConc : ProviderReply(r, ans)
        \/ Respond(r)

Spec == Init /\ [][Next]_vars

SpecConc == InitConc /\ [][NextConc]_vars

-----------------------------------------------------------------------------
(* Properties                                                              *)

Done(r) == pc[r] = "done"

\* the caller supplied the parameter and, upper-cased, it is one of the three codes
CodeValid(a, key) == key \in DOMAIN a /\ upper(a[key]) \in {USD, GBP, EUR}

CodesValid(a) == CodeValid(a, "base-currency") /\ CodeValid(a, "to-currency")

AmountAbsent(a) == "amount" \notin DOMAIN a

AmountParses(a) == "amount" \in DOMAIN a /\ float(a["amount"]).ok

ErrorKeys == {"error", "notes", "user_input"}

\* the answer is a response whose JSON body holds data[<target>]
HoldsRate(ans, a) ==
    /\ ans.kind = "response"
    /\ ans.json
    /\ ans.hasData
    /\ upper(a["to-currency"]) \in DOMAIN ans.data

RateOf(ans, a) == ans.data[upper(a["to-currency"])]

Abs(n) == IF n < 0 THEN -n ELSE n

\* c hundredths is x rounded to two decimals: c lies within half a hundredth of x
IsRounded2(c, x) ==
    IF x.frac <= 2 THEN c = x.num * Pow10(2 - x.frac)
    ELSE 2 * Abs(c * Pow10(x.frac - 2) - x.num) <= Pow10(x.frac - 2)

\* C1: a request whose base-currency or to-currency is missing, empty or not one
\* of USD, GBP, EUR after upper-casing is answered 400 with a body of error, notes
\* and user_input carrying the currency-validation error, whatever its amount is.
C1_InvalidCurrencyRejected ==
    \A r \in Requests :
        (Done(r) /\ ~CodesValid(args[r])) =>
            /\ response[r].status = 400
            /\ DOMAIN response[r].body = ErrorKeys
            /\ response[r].body.error = CurrencyError

\* a missing base-currency together with an unparseable amount was rejected
C1_Witness ==
    \E r \in Requests :
        /\ Done(r)
        /\ "base-currency" \notin DOMAIN args[r]
        /\ CodeValid(args[r], "to-currency")
        /\ "amount" \in DOMAIN args[r]
        /\ ~float(args[r]["amount"]).ok
        /\ response[r].status = 400

\* C2: a request with two valid codes and an amount that is present but does not
\* parse as a float (the empty value included) is answered 400 with a body of
\* error, notes and user_input whose error differs from the currency error.
C2_InvalidAmountRejected ==
    \A r \in Requests :
        (Done(r) /\ CodesValid(args[r]) /\ ~AmountAbsent(args[r]) /\ ~AmountParses(args[r])) =>
            /\ response[r].status = 400
            /\ DOMAIN response[r].body = ErrorKeys
            /\ response[r].body.error = AmountError
            /\ response[r].body.error # CurrencyError

\* an empty amount with valid codes was rejected
C2_Witness ==
    \E r \in Requests :
        /\ Done(r)
        /\ CodesValid(args[r])
        /\ "amount" \in DOMAIN args[r]
        /\ args[r]["amount"] = <<>>
        /\ response[r].status = 400

\* C3: a request with codes from {USD, GBP, EUR} and no amount, whose provider
\* call returned a rate, is answered 200 with exactly conversion_rate (the rate
\* returned) and user_input, and without converted_amount.
C3_RateOnly ==
    \A r \in Requests :
        (Done(r) /\ CodesValid(args[r]) /\ AmountAbsent(args[r])
                 /\ HoldsRate(answer[r], args[r])) =>
            /\ response[r].status = 200
            /\ DOMAIN response[r].body = {"conversion_rate", "user_input"}
            /\ response[r].body.conversion_rate = RateOf(answer[r], args[r])

\* a conversion of a currency into itself, without amount, was answered
C3_Witness ==
    \E r \in Requests :
        /\ Done(r)
        /\ CodesValid(args[r])
        /\ AmountAbsent(args[r])
        /\ upper(args[r]["base-currency"]) = upper(args[r]["to-currency"])
        /\ HoldsRate(answer[r], args[r])
        /\ response[r].status = 200

\* C4: a request with valid codes and a supplied amount that parses (0 included),
\* whose provider call returned a rate, is answered 200 with converted_amount
\* equal to conversion_rate * amount rounded to two decimals.
C4_ConvertedAmount ==
    \A r \in Requests :
        (Done(r) /\ CodesValid(args[r]) /\ AmountParses(args[r])
                 /\ HoldsRate(answer[r], args[r])) =>
            /\ response[r].status = 200
            /\ "converted_amount" \in DOMAIN response[r].body
            /\ IsRounded2(response[r].body.converted_amount,
                          Times(response[r].body.conversion_rate, float(args[r]["amount"])))

\* an amount of 0 was converted
C4_Witness ==
    \E r \in Requests :
        /\ Done(r)
        /\ CodesValid(args[r])
        /\ "amount" \in DOMAIN args[r]
        /\ args[r]["amount"] = <<"0">>
        /\ response[r].status = 200
        /\ response[r].body.converted_amount = 0

\* the two strings are equal up to the case of their letters
EqualButCase(s, t) ==
    /\ Len(s) = Len(t)
    /\ \A i \in 1..Len(s) :
          \/ s[i] = t[i]
          \/ s[i] \in DOMAIN UpperTable /\ UpperTable[s[i]] = t[i]
          \/ t[i] \in DOMAIN UpperTable /\ UpperTable[t[i]] = s[i]

\* the two requests differ at most in the letter case of their currency codes
DifferOnlyInCase(a, b) ==
    /\ DOMAIN a = DOMAIN b
    /\ \A k \in DOMAIN a :
          IF k \in {"base-currency", "to-currency"} THEN EqualButCase(a[k], b[k])
          ELSE a[k] = b[k]

\* C5: two requests that differ only in the letter case of their currency codes
\* send the same outbound request, with both codes in upper case, and, given the
\* same provider answer, get the same status, conversion_rate and converted_amount.
C5_CaseInsensitive ==
    \A r1, r2 \in Requests :
        DifferOnlyInCase(args[r1], args[r2]) =>
            /\ (calls[r1] > 0 /\ calls[r2] > 0) =>
                  /\ outbound[r1] = outbound[r2]
                  /\ outbound[r1].base_currency \in {USD, GBP, EUR}
                  /\ outbound[r1].currencies[1] \in {USD, GBP, EUR}
            /\ (Done(r1) /\ Done(r2) /\ answer[r1] = answer[r2]) =>
                  /\ response[r1].status = response[r2].status
                  /\ response[r1].status = 200 =>
                        /\ response[r1].body.conversion_rate = response[r2].body.conversion_rate
                        /\ response[r1].body.converted_amount = response[r2].body.converted_amount

\* gbp and GBP were both converted, on the same provider answer
C5_Witness ==
    \E r1, r2 \in Requests :
        /\ args[r1] # args[r2]
        /\ DifferOnlyInCase(args[r1], args[r2])
        /\ Done(r1) /\ Done(r2)
        /\ answer[r1] = answer[r2]
        /\ response[r1].status = 200
        /\ response[r2].status = 200

\* C6: user_input of every 200 and 400 response is the caller's query parameters,
\* the same keys with the same values.
C6_EchoesInput ==
    \A r \in Requests :
        response[r].status \in {200, 400} =>
            /\ "user_input" \in DOMAIN response[r].body
            /\ response[r].body.user_input = args[r]

\* a success without amount, with a lower-case letter in a code and a further
\* parameter, was answered
C6_Witness ==
    \E r \in Requests :
        /\ response[r].status = 200
        /\ AmountAbsent(args[r])
        /\ "ref" \in DOMAIN args[r]
        /\ args[r]["base-currency"] # upper(args[r]["base-currency"])

\* C7 as stated: every request, once handled, has made exactly one outbound call.
C7_ExactlyOneCall == \A r \in Requests : Done(r) => calls[r] = 1

\* C7, amended: no request makes more than one outbound call; a handled request
\* made exactly one if it passed validation and none if it was answered 400.
C7_OneCallWhenValid ==
    \A r \in Requests :
        /\ calls[r] <= 1
        /\ Done(r) => calls[r] = (IF response[r].status = 400 THEN 0 ELSE 1)

\* a lookup that failed ended the request after its single call
C7_Witness ==
    \E r \in Requests : Done(r) /\ response[r].status = 500 /\ calls[r] = 1

\* the upstream call failed in one of the ways that leave no rate to read
LookupFailed(ans, a) == ans.kind = "raised" \/ ~HoldsRate(ans, a)

\* C8 as stated: a network failure, a non-200 response or a body without the
\* target's key ends the request as a server error after one call.
C8_UpstreamFailurePropagates ==
    \A r \in Requests :
        (Done(r) /\ calls[r] > 0
                 /\ (LookupFailed(answer[r], args[r]) \/ answer[r].status_code # 200)) =>
            /\ response[r].status = 500
            /\ calls[r] = 1

\* C8, amended: a network failure or a body, of whatever status, that is not
\* JSON or lacks the target's key ends the request as a server error after one
\* call, answered neither 200 nor 400.
C8_UnreadableAnswerPropagates ==
    \A r \in Requests :
        (Done(r) /\ calls[r] > 0 /\ LookupFailed(answer[r], args[r])) =>
            /\ response[r].status = 500
            /\ response[r].status \notin {200, 400}
            /\ calls[r] = 1

\* a 200 answer holding only another currency's key ended as a server error
C8_Witness ==
    \E r \in Requests :
        /\ Done(r)
        /\ answer[r].kind = "response"
        /\ answer[r].status_code = 200
        /\ answer[r].hasData
        /\ ~HoldsRate(answer[r], args[r])
        /\ response[r].status = 500

\* C9: under every interleaving the response of a request is the handler's
\* function of its own parameters and of the answer to its own call, and its
\* outbound call is the one its own parameters give.
C9_Independent ==
    \A r \in Requests :
        /\ calls[r] > 0 =>
              outbound[r] = LookupParams(args[r]["base-currency"], args[r]["to-currency"])
        /\ Done(r) => response[r] = convert_currency(args[r], answer[r], fpErr)

\* two requests, handled at the same time, were answered on different provider answers
C9_Witness ==
    \E r1, r2 \in Requests :
        /\ r1 # r2
        /\ Done(r1) /\ Done(r2)
        /\ answer[r1].kind = "response"
        /\ answer[r2].kind # "none"
        /\ answer[r1] # answer[r2]
        /\ response[r1].status = 200

\* C10: a request answered 400 has made no outbound call, and a request that has
\* made one has two valid codes and an amount that is absent or parses.
C10_ValidationBeforeLookup ==
    \A r \in Requests :
        /\ response[r].status = 400 => calls[r] = 0
        /\ calls[r] > 0 =>
              /\ CodesValid(args[r])
              /\ AmountAbsent(args[r]) \/ AmountParses(args[r])

\* an invalid amount was rejected without a call
C10_Witness ==
    \E r \in Requests :
        /\ Done(r)
        /\ response[r].status = 400
        /\ response[r].body.error = AmountError
        /\ calls[r] = 0

====
